---- MODULE Spec2Model ----
(***************************************************************************)
(* Model of the calculators of 2bond&stock.ipynb: bond_value,              *)
(* calculate_ytm, calculate_realized_yield, pv_stock_constant_growth,      *)
(* pv_stock_varying_growth_rate and optimal_weight_allocation.             *)
(*                                                                         *)
(* Numbers are Python floats, modelled bit for bit as IEEE 754 binary64:   *)
(* a float is a record [k, s, m, e] of kind "fin" | "inf" | "nan", sign,   *)
(* odd significand m (a little-endian sequence of limbs, << >> for zero)   *)
(* and exponent e, of value (-1)^s * m * 2^e.  Every operation rounds the  *)
(* exact result to 53 bits, to nearest, ties to even, with gradual         *)
(* underflow and overflow to infinity.  The sign of zero is not kept.      *)
(***************************************************************************)
EXTENDS Integers, Sequences, FiniteSets, TLC

\* ------------------------------------------------------------------------
\* Natural numbers of any size, as sequences of limbs, lowest limb first.
\* ------------------------------------------------------------------------

(***************************************************************************)
(* Natural numbers of any size: little-endian sequences of limbs, the top  *)
(* limb non-zero, zero the empty sequence.  A limb holds LimbBits bits so  *)
(* that a product of two limbs plus a carry stays below 2^31.              *)
(***************************************************************************)
LimbBits == (31 - 1) \div 2
Base == 2 ^ LimbBits

Max(a, b) == IF a >= b THEN a ELSE b
Min(a, b) == IF a <= b THEN a ELSE b

BigTrim(a) ==
    LET nz == {i \in 1..Len(a) : a[i] # 0}
    IN  IF nz = {} THEN << >>
        ELSE SubSeq(a, 1, CHOOSE i \in nz : \A j \in nz : j <= i)

RECURSIVE BigFromNat(_)
BigFromNat(n) == IF n = 0 THEN << >> ELSE <<n % Base>> \o BigFromNat(n \div Base)

BigOne == <<1>>

\* a + b.  A carry enters limb i when a limb below it overflows and every
\* limb between passes a carry on.
BigAdd(a, b) ==
    LET x(i) == IF i <= Len(a) THEN a[i] ELSE 0
        y(i) == IF i <= Len(b) THEN b[i] ELSE 0
        carry(i) ==
            IF i = 1 \/ x(i - 1) + y(i - 1) < Base - 1 THEN 0
            ELSE IF x(i - 1) + y(i - 1) >= Base THEN 1
            ELSE IF \E j \in 1..(i - 2) :
                      /\ x(j) + y(j) >= Base
                      /\ \A k \in (j + 1)..(i - 2) : x(k) + y(k) = Base - 1
                 THEN 1 ELSE 0
        n == Max(Len(a), Len(b)) + 1
    IN  CASE a = << >> -> BigTrim(b)
          [] b = << >> -> BigTrim(a)
          [] OTHER -> BigTrim(SubSeq([i \in 1..n |-> (x(i) + y(i) + carry(i)) % Base],
                                     1, n))

\* a - b for a >= b.  A borrow enters limb i when a limb below it falls
\* short and every limb between passes a borrow on.
BigSub(a, b) ==
    LET y(i) == IF i <= Len(b) THEN b[i] ELSE 0
        borrow(i) ==
            IF i = 1 \/ a[i - 1] > y(i - 1) THEN 0
            ELSE IF a[i - 1] < y(i - 1) THEN 1
            ELSE IF \E j \in 1..(i - 2) :
                      /\ a[j] < y(j)
                      /\ \A k \in (j + 1)..(i - 2) : a[k] = y(k)
                 THEN 1 ELSE 0
    IN  BigTrim(SubSeq([i \in 1..Len(a) |-> (a[i] - y(i) - borrow(i) + Base) % Base],
                       1, Len(a)))

\* the order of a and b: their highest differing limb decides
BigCmp(a, b) ==
    IF Len(a) > Len(b) THEN 1
    ELSE IF Len(a) < Len(b) THEN -1
    ELSE LET diff == {i \in 1..Len(a) : a[i] # b[i]}
             top  == CHOOSE i \in diff : \A j \in diff : j <= i
         IN  IF diff = {} THEN 0 ELSE IF a[top] > b[top] THEN 1 ELSE -1

\* a * k for a limb k: the low halves of the limb products plus their high
\* halves one limb up
BigMulSmall(a, k) ==
    IF k = 0 \/ a = << >> THEN << >>
    ELSE BigAdd(SubSeq([i \in 1..Len(a) |-> (a[i] * k) % Base], 1, Len(a)),
                <<0>> \o [i \in 1..Len(a) |-> (a[i] * k) \div Base])

BigShiftLimbs(a, w) == IF a = << >> THEN a ELSE [i \in 1..w |-> 0] \o a

\* prev.p * Base^prev.i + a * (the limbs prev.i down to 1 of b)
RECURSIVE BigMulLoop(_, _, _)
BigMulLoop(a, b, prev) ==
    IF prev.i = 0 THEN prev.p
    ELSE BigMulLoop(a, b, [p |-> BigAdd(BigMulSmall(a, b[prev.i]),
                                        BigShiftLimbs(prev.p, 1)),
                           i |-> prev.i - 1])

BigMul(a, b) ==
    CASE a = << >> \/ b = << >> -> << >>
      [] Len(b) > Len(a) -> BigMulLoop(b, a, [p |-> << >>, i |-> Len(a)])
      [] OTHER -> BigMulLoop(a, b, [p |-> << >>, i |-> Len(b)])

\* acc * a^n
RECURSIVE BigPowFrom(_, _, _)
BigPowFrom(acc, a, n) ==
    IF n = 0 \/ acc = << >> THEN acc ELSE BigPowFrom(BigMul(acc, a), a, n - 1)

BigPow(a, n) == BigPowFrom(BigOne, a, n)

\* a * 2^n
BigShl(a, n) == BigShiftLimbs(BigMulSmall(a, 2 ^ (n % LimbBits)), n \div LimbBits)

\* floor(a / 2^n)
BigShr(a, n) ==
    LET w == n \div LimbBits
        r == n % LimbBits
        b == IF w >= Len(a) THEN << >> ELSE SubSeq(a, w + 1, Len(a))
    IN  IF r = 0 THEN b
        ELSE BigTrim([i \in 1..Len(b) |->
                 (b[i] \div 2 ^ r)
                 + (IF i < Len(b) THEN (b[i + 1] % 2 ^ r) * 2 ^ (LimbBits - r) ELSE 0)])

\* a mod 2^n
BigLow(a, n) ==
    LET w == n \div LimbBits
        r == n % LimbBits
    IN  IF w >= Len(a) THEN a
        ELSE BigTrim(SubSeq(a, 1, w) \o <<a[w + 1] % 2 ^ r>>)

\* the number of bits of a limb x
BitLenSmall(x) == Cardinality({k \in 0..(LimbBits - 1) : 2 ^ k <= x})
BigBitLen(a) == IF a = << >> THEN 0 ELSE LimbBits * (Len(a) - 1) + BitLenSmall(a[Len(a)])

\* the number of trailing zero bits of a limb x > 0
TzSmall(x) == Cardinality({k \in 1..LimbBits : x % 2 ^ k = 0})
\* the number of trailing zero bits of a > 0
BigTz(a) ==
    LET low == CHOOSE i \in 1..Len(a) : a[i] # 0 /\ \A j \in 1..(i - 1) : a[j] = 0
    IN  LimbBits * (low - 1) + TzSmall(a[low])

BigIsOdd(a) == a # << >> /\ Head(a) % 2 = 1

(***************************************************************************)
(* Long division, one quotient limb per step.  The divisor d is normalised *)
(* (top limb >= Base/2), so the estimate from the two top limbs of the     *)
(* running remainder is at most 2 too large.                               *)
(***************************************************************************)
RECURSIVE BigFixDigit(_, _, _)
BigFixDigit(r, d, q) ==
    LET p == BigMulSmall(d, q)
    IN  IF BigCmp(p, r) > 0 THEN BigFixDigit(r, d, q - 1)
        ELSE [q |-> q, r |-> BigSub(r, p)]

BigDivDigit(r, d) ==
    LET n == Len(d)
        top == IF Len(r) > n THEN r[n + 1] ELSE 0
        nxt == IF Len(r) >= n THEN r[n] ELSE 0
        est == Min(Base - 1, (top * Base + nxt) \div d[n])
    IN  BigFixDigit(r, d, est)

\* one more limb: the quotient and remainder of (prev.r, limb) by d, and
\* the number of limbs still to come
BigDivStep(prev, limb, d) ==
    IF prev.r = << >> /\ limb = 0
    THEN [q |-> IF prev.q = << >> THEN << >> ELSE <<0>> \o prev.q, r |-> << >>,
          i |-> prev.i - 1]
    ELSE LET s == BigDivDigit(BigTrim(<<limb>> \o prev.r), d)
         IN  [q |-> BigTrim(<<s.q>> \o prev.q), r |-> s.r, i |-> prev.i - 1]

\* the quotient and remainder when the limbs prev.i down to 1 of n follow prev
RECURSIVE BigDivLoop(_, _, _)
BigDivLoop(n, d, prev) ==
    IF prev.i = 0 THEN prev ELSE BigDivLoop(n, d, BigDivStep(prev, n[prev.i], d))

\* The top limbs of n, one fewer than d has, are below d: they are the first
\* remainder.
BigDivFrom(n, d, k) ==
    BigDivLoop(n, d, [q |-> << >>, r |-> SubSeq(n, Len(n) - k + 1, Len(n)),
                      i |-> Len(n) - k])

\* [q |-> floor(n / d), r |-> 0 iff d divides n] for d > 0
BigDivMod(n, d) ==
    LET sh == LimbBits - BitLenSmall(d[Len(d)])
        m  == BigShl(n, sh)
        dn == BigShl(d, sh)
    IN  BigDivFrom(m, dn, Min(Len(m), Len(dn) - 1))

(***************************************************************************)
(* IEEE 754 binary64, the arithmetic of Python's float and of numpy's      *)
(* float64: a finite value is (-1)^s * m * 2^e with m odd below            *)
(* 2^Precision (zero: m empty), results are rounded to nearest, ties to    *)
(* even, with gradual underflow and overflow to infinity.                  *)
(***************************************************************************)
\* ------------------------------------------------------------------------
\* Every operation on floats, and every function of the notebook, is reached
\* through Compute, which selects its definition by name.
\* ------------------------------------------------------------------------
RECURSIVE Compute(_, _)

FRound(s, q, sticky, qe) == Compute("FRound", <<s, q, sticky, qe>>)
FRoundRatio(s, n, d, e) == Compute("FRoundRatio", <<s, n, d, e>>)
FInt(n) == Compute("FInt", <<n>>)
Dec(n, k) == Compute("Dec", <<n, k>>)
FCmp(a, b) == Compute("FCmp", <<a, b>>)
FAdd(a, b) == Compute("FAdd", <<a, b>>)
FMul(a, b) == Compute("FMul", <<a, b>>)
FDiv(a, b) == Compute("FDiv", <<a, b>>)
FPow(x, n) == Compute("FPow", <<x, n>>)
truediv(np, a, b) == Compute("truediv", <<np, a, b>>)
pow(np, x, n) == Compute("pow", <<np, x, n>>)
discounted(np, amount, base, t) == Compute("discounted", <<np, amount, base, t>>)
bond_price(face_value, coupon_rate, years_to_maturity, ytm, frequency, np) == Compute("bond_price", <<face_value, coupon_rate, years_to_maturity, ytm, frequency, np>>)
func(o, l, x) == Compute("func", <<o, l, x>>)
secant(s) == Compute("secant", <<s>>)
IsClose(a, b) == Compute("IsClose", <<a, b>>)
perpetuity_term(last_dividend, discount_rate, g, t) == Compute("perpetuity_term", <<last_dividend, discount_rate, g, t>>)
bond_value(face_value, coupon_rate, years_to_maturity, ytm, frequency, np) == Compute("bond_value", <<face_value, coupon_rate, years_to_maturity, ytm, frequency, np>>)
newton_start(o, l, x0) == Compute("newton_start", <<o, l, x0>>)
newton_pass(o, l, s) == Compute("newton_pass", <<o, l, s>>)
realized_yield_setup(a) == Compute("realized_yield_setup", <<a>>)
pv_stock_constant_growth(f) == Compute("pv_stock_constant_growth", <<f>>)
varying_growth_pass(f, g, t) == Compute("varying_growth_pass", <<f, g, t>>)
capital_allocation(g) == Compute("capital_allocation", <<g>>)
optimal_weight_allocation(r1, r2, sigma1, sigma2, rho, rf) == Compute("optimal_weight_allocation", <<r1, r2, sigma1, sigma2, rho, rf>>)

Precision == 53
MinExp == 0 - 1074
MaxTop == 1024

FZero == [k |-> "fin", s |-> 0, m |-> << >>, e |-> 0]
FInf(s) == [k |-> "inf", s |-> s, m |-> << >>, e |-> 0]
FNaN == [k |-> "nan", s |-> 0, m |-> << >>, e |-> 0]

IsFin(x) == x.k = "fin"
IsZero(x) == x.k = "fin" /\ x.m = << >>

\* The float of sign s nearest to q * 2^qe, plus a little more when sticky:
\* bits of q are dropped down to Precision bits and to the least exponent
\* MinExp, the rest c of the dropped bits against half a unit deciding the
\* rounding, ties going to the even significand.
Canonical(s, m, e, tz) == [k |-> "fin", s |-> s, m |-> BigShr(m, tz), e |-> e + tz]

Rounded(s, m, e) ==
    CASE m = << >> -> FZero
      [] BigBitLen(m) + e > MaxTop -> FInf(s)
      [] OTHER -> Canonical(s, m, e, BigTz(m))

RoundUp(s, hi, c, sticky, e) ==
    Rounded(s, IF c > 0 \/ (c = 0 /\ (sticky \/ BigIsOdd(hi)))
               THEN BigAdd(hi, BigOne) ELSE hi, e)

RoundDrop(s, q, sticky, qe, bl, drop) ==
    IF drop > bl + 1 THEN FZero
    ELSE RoundUp(s, BigShr(q, drop),
                 IF drop = 0 THEN 0 - 1
                 ELSE BigCmp(BigLow(q, drop), BigShl(BigOne, drop - 1)),
                 sticky, qe + drop)

RoundBits(s, q, sticky, qe, bl) ==
    RoundDrop(s, q, sticky, qe, bl, Max(Max(0, bl - Precision), MinExp - qe))

FRound_impl(s, q, sticky, qe) ==
    IF q = << >> THEN FZero ELSE RoundBits(s, q, sticky, qe, BigBitLen(q))

RatioRounded(s, dm, e) == FRound(s, dm.q, dm.r # << >>, e)

RatioShifted(s, n, d, e, sh) == RatioRounded(s, BigDivMod(BigShl(n, sh), d), e - sh)

FRoundRatio_impl(s, n, d, e) ==
    CASE n = << >> -> FZero
      [] d = BigOne -> FRound(s, n, FALSE, e)
      [] OTHER -> RatioShifted(s, n, d, e,
                               Max(0, Precision + 2 + BigBitLen(d) - BigBitLen(n)))

FInt_impl(n) == FRound(IF n < 0 THEN 1 ELSE 0, BigFromNat(IF n < 0 THEN 0 - n ELSE n), FALSE, 0)
\* the float nearest to n / 10^k: a decimal literal
Dec_impl(n, k) ==
    FRoundRatio(IF n < 0 THEN 1 ELSE 0, BigFromNat(IF n < 0 THEN 0 - n ELSE n),
                BigPow(BigFromNat(10), k), 0)

FNeg(x) == IF x.k = "nan" \/ IsZero(x) THEN x ELSE [x EXCEPT !.s = 1 - x.s]
FAbs(x) == [x EXCEPT !.s = 0]

\* the position above the top bit of a finite non-zero x
FTop(x) == x.e + BigBitLen(x.m)

\* -1, 0, 1 as |a| <, =, > |b| for finite a, b
MagCmp(a, b) ==
    CASE IsZero(a) -> (IF IsZero(b) THEN 0 ELSE 0 - 1)
      [] IsZero(b) -> 1
      [] FTop(a) > FTop(b) -> 1
      [] FTop(a) < FTop(b) -> 0 - 1
      [] OTHER -> BigCmp(BigShl(a.m, a.e - Min(a.e, b.e)),
                         BigShl(b.m, b.e - Min(a.e, b.e)))

\* -1, 0, 1 as a <, =, > b for a, b not NaN
FCmp_impl(a, b) ==
    LET sa == IF IsZero(a) THEN 0 ELSE IF a.s = 1 THEN 0 - 1 ELSE 1
        sb == IF IsZero(b) THEN 0 ELSE IF b.s = 1 THEN 0 - 1 ELSE 1
    IN  IF sa # sb THEN (IF sa > sb THEN 1 ELSE 0 - 1)
        ELSE IF sa = 0 THEN 0
        ELSE LET mc == IF a.k = "inf" THEN (IF b.k = "inf" THEN 0 ELSE 1)
                       ELSE IF b.k = "inf" THEN 0 - 1
                       ELSE MagCmp(a, b)
             IN  sa * mc

FEq(a, b) == a.k # "nan" /\ b.k # "nan" /\ FCmp(a, b) = 0
FLt(a, b) == a.k # "nan" /\ b.k # "nan" /\ FCmp(a, b) < 0
FLe(a, b) == a.k # "nan" /\ b.k # "nan" /\ FCmp(a, b) <= 0
FGt(a, b) == FLt(b, a)
FGe(a, b) == FLe(b, a)

FAddFin(a, b) ==
    LET e  == Min(a.e, b.e)
        am == BigShl(a.m, a.e - e)
        bm == BigShl(b.m, b.e - e)
        c  == BigCmp(am, bm)
    IN  CASE IsZero(a) -> b
          [] IsZero(b) -> a
          [] FTop(a) - FTop(b) > Precision + 3 -> a
          [] FTop(b) - FTop(a) > Precision + 3 -> b
          [] a.s = b.s -> FRound(a.s, BigAdd(am, bm), FALSE, e)
          [] c = 0 -> FZero
          [] c > 0 -> FRound(a.s, BigSub(am, bm), FALSE, e)
          [] OTHER -> FRound(b.s, BigSub(bm, am), FALSE, e)

FAdd_impl(a, b) ==
    CASE a.k = "nan" \/ b.k = "nan" -> FNaN
      [] a.k = "inf" -> (IF b.k = "inf" /\ b.s # a.s THEN FNaN ELSE a)
      [] b.k = "inf" -> b
      [] OTHER -> FAddFin(a, b)

FSub(a, b) == FAdd(a, FNeg(b))

FMul_impl(a, b) ==
    LET s == IF a.s = b.s THEN 0 ELSE 1
    IN  CASE a.k = "nan" \/ b.k = "nan" -> FNaN
          [] a.k = "inf" \/ b.k = "inf" ->
                 (IF IsZero(a) \/ IsZero(b) THEN FNaN ELSE FInf(s))
          [] OTHER -> FRound(s, BigMul(a.m, b.m), FALSE, a.e + b.e)

\* IEEE division: x / 0 is an infinity, 0 / 0 is NaN
FDiv_impl(a, b) ==
    LET s == IF a.s = b.s THEN 0 ELSE 1
    IN  CASE a.k = "nan" \/ b.k = "nan" -> FNaN
          [] a.k = "inf" -> (IF b.k = "inf" THEN FNaN ELSE FInf(s))
          [] b.k = "inf" -> FZero
          [] IsZero(b) -> (IF IsZero(a) THEN FNaN ELSE FInf(s))
          [] OTHER -> FRoundRatio(s, a.m, b.m, a.e - b.e)

\* x ** n for an integer n, correctly rounded
FPow_impl(x, n) ==
    LET s == IF x.s = 1 /\ n % 2 = 1 THEN 1 ELSE 0
        k == IF n < 0 THEN 0 - n ELSE n
    IN  CASE n = 0 -> FInt(1)
          [] x.k = "nan" -> FNaN
          [] x.k = "inf" -> (IF n > 0 THEN FInf(s) ELSE FZero)
          [] IsZero(x) -> (IF n > 0 THEN FZero ELSE FInf(0))
          [] n > 0 -> FRound(s, BigPow(x.m, k), FALSE, x.e * k)
          [] OTHER -> FRoundRatio(s, BigOne, BigPow(x.m, k), 0 - x.e * k)

\* ------------------------------------------------------------------------
\* Python expressions.  An evaluation either yields a float or raises: it
\* is a record [exc, val].  With np = TRUE the operands are numpy scalars
\* (every value derived from the root finder's iterate), whose division by
\* zero and overflow give inf or nan instead of raising.
\* ------------------------------------------------------------------------
\* Python's None, where a float may stand.
None == [k |-> "none", s |-> 0, m |-> << >>, e |-> 0]

Ok(v) == [exc |-> "none", val |-> v]
Raise(e) == [exc |-> e, val |-> FNaN]

truediv_impl(np, a, b) ==
    IF ~np /\ IsZero(b) THEN Raise("ZeroDivisionError") ELSE Ok(FDiv(a, b))

pow_impl(np, x, n) ==
    LET p == FPow(x, n)
    IN  IF np THEN Ok(p)
        ELSE IF IsZero(x) /\ n < 0 THEN Raise("ZeroDivisionError")
        ELSE IF IsFin(x) /\ p.k = "inf" THEN Raise("OverflowError")
        ELSE Ok(p)

\* amount * base ** t: compounding where the code discounts.
compounded(np, amount, base, t) ==
    LET p == pow(np, base, t)
    IN  IF p.exc # "none" THEN p ELSE Ok(FMul(amount, p.val))

\* amount / base ** t
discounted_impl(np, amount, base, t) ==
    LET p == pow(np, base, t)
    IN  IF p.exc # "none" THEN p ELSE truediv(np, amount, p.val)

\* A sum that counts one payment whatever the number of periods.
one_payment_sum(np, amount, base, n) == Ok(amount)

\* sum(terms): the terms are added from the first upwards, starting from 0,
\* unless the evaluation of one of them raised.
RECURSIVE summed(_, _)
summed(terms, n) ==
    IF n = 0 THEN Ok(FZero)
    ELSE LET before == summed(terms, n - 1)
         IN  IF before.exc # "none" THEN before
             ELSE IF terms[n].exc # "none" THEN terms[n]
             ELSE Ok(FAdd(before.val, terms[n].val))

\* sum(amount / base ** t for t in range(1, n + 1))
discounted_sum(np, amount, base, n) ==
    LET terms == IF n <= 0 THEN << >>
                 ELSE SubSeq([t \in 1..n |-> discounted(np, amount, base, t)], 1, n)
    IN  summed(terms, Len(terms))

\* ------------------------------------------------------------------------
\* bond_value
\* ------------------------------------------------------------------------
\* A frequency check that lets 'quarter' through.
LaxBondFrequencies == {"annual", "semi-annual", "quarter"}

BondFrequencies == {"annual", "semi-annual"}

periods_per_year(frequency) == IF frequency = "annual" THEN 1 ELSE 2

\* The pricing formula, past the frequency check.
bond_price_impl(face_value, coupon_rate, years_to_maturity, ytm, frequency, np) ==
    LET ppy             == periods_per_year(frequency)
        total_periods   == years_to_maturity * ppy
        rate_per_period == FDiv(ytm, FInt(ppy))
        coupon_payment  == FDiv(FMul(coupon_rate, face_value), FInt(ppy))
        base            == FAdd(FInt(1), rate_per_period)
        coupon_pv       == discounted_sum(np, coupon_payment, base, total_periods)
    IN  IF coupon_pv.exc # "none" THEN coupon_pv
        ELSE LET face_value_pv == discounted(np, face_value, base, total_periods)
             IN  IF face_value_pv.exc # "none" THEN face_value_pv
                 ELSE Ok(FAdd(coupon_pv.val, face_value_pv.val))

\* priced: how often the pricing formula was run (0 when the frequency check
\* raised before it).
bond_value_impl(face_value, coupon_rate, years_to_maturity, ytm, frequency, np) ==
    IF frequency \notin BondFrequencies
    THEN [exc |-> "ValueError", val |-> FNaN, priced |-> 0]
    ELSE LET r == bond_price(face_value, coupon_rate, years_to_maturity, ytm,
                             frequency, np)
         IN  [exc |-> r.exc, val |-> r.val, priced |-> 1]

\* ------------------------------------------------------------------------
\* The residuals handed to the root finder.  Their argument is the root
\* finder's iterate, a numpy scalar.
\* ------------------------------------------------------------------------
\* lambda ytm: bond_price - bond_value(face_value, coupon_rate, years, ytm, frequency)
ytm_residual(l, ytm) ==
    LET v == bond_value(l.face_value, l.coupon_rate, l.years_to_maturity, ytm,
                        l.frequency, TRUE)
    IN  [exc |-> v.exc, priced |-> v.priced,
         val |-> IF v.exc = "none" THEN FSub(l.bond_price, v.val) ELSE FNaN]

\* A residual that leaves the coupons of the holding period out.
residual_without_coupons(l, r_ytm) ==
    LET base == FAdd(FInt(1), FDiv(r_ytm, FInt(l.periods_per_year)))
        sale == discounted(TRUE, l.future_bond_price_at_sale, base,
                           l.holding_periods)
    IN  [exc |-> "none", priced |-> 0,
         val |-> FSub(l.initial_bond_price, sale.val)]

\* lambda r_ytm: initial_bond_price - sum(counpon_payment / (1 + r_ytm / ppy) ** t ...)
\*                - future_bond_price_at_sale / (1 + r_ytm / ppy) ** holding_periods
realized_residual(l, r_ytm) ==
    LET base    == FAdd(FInt(1), FDiv(r_ytm, FInt(l.periods_per_year)))
        coupons == discounted_sum(TRUE, l.counpon_payment, base, l.holding_periods)
        sale    == discounted(TRUE, l.future_bond_price_at_sale, base,
                              l.holding_periods)
    IN  [exc |-> "none", priced |-> 0,
         val |-> FSub(FSub(l.initial_bond_price, coupons.val), sale.val)]

func_impl(o, l, x) ==
    IF o = "calculate_ytm" THEN ytm_residual(l, x) ELSE realized_residual(l, x)

\* ------------------------------------------------------------------------
\* newton(func, x0): the secant method of scipy.optimize, with its defaults
\* tol = 1.48e-08, maxiter = 50, rtol = 0.0, disp = True.
\* newton turns x0 into a numpy scalar (x0 = np.asarray(x0)[()] * 1.0), so
\* every iterate and every residual is one.
\* ------------------------------------------------------------------------
Tol == Dec(148, 10)
RTol == FZero
MaxIter == 50
Eps == Dec(1, 4)

\* np.isclose(a, b, rtol = RTol, atol = Tol)
IsClose_impl(a, b) ==
    IF IsFin(a) /\ IsFin(b)
    THEN FLe(FAbs(FSub(a, b)), FAdd(Tol, FMul(RTol, FAbs(b))))
    ELSE FEq(a, b)

\* The two starting points and their residuals.  s.exc is the exception a
\* residual raised, s.priced the pricing formula runs so far.
newton_start_impl(o, l, x0) ==
    LET p0  == x0
        p1a == FMul(x0, FAdd(FInt(1), Eps))
        p1  == FAdd(p1a, IF FGe(p1a, FZero) THEN Eps ELSE FNeg(Eps))
        q0  == func(o, l, p0)
    IN  IF q0.exc # "none"
        THEN [exc |-> q0.exc, priced |-> q0.priced,
              p0 |-> p0, q0 |-> None, p1 |-> p1, q1 |-> None,
              itr |-> 0, funcalls |-> 0]
        ELSE
        LET q1 == func(o, l, p1)
        IN  IF q1.exc # "none"
            THEN [exc |-> q1.exc, priced |-> q0.priced + q1.priced,
                  p0 |-> p0, q0 |-> q0.val, p1 |-> p1, q1 |-> None,
                  itr |-> 0, funcalls |-> 1]
            ELSE IF FLt(FAbs(q1.val), FAbs(q0.val))
            THEN [exc |-> "none", priced |-> q0.priced + q1.priced,
                  p0 |-> p1, q0 |-> q1.val, p1 |-> p0, q1 |-> q0.val,
                  itr |-> 0, funcalls |-> 2]
            ELSE [exc |-> "none", priced |-> q0.priced + q1.priced,
                  p0 |-> p0, q0 |-> q0.val, p1 |-> p1, q1 |-> q1.val,
                  itr |-> 0, funcalls |-> 2]

\* The next iterate, for residuals that differ.
secant_impl(s) ==
    IF FGt(FAbs(s.q1), FAbs(s.q0))
    THEN FDiv(FAdd(FMul(FDiv(FNeg(s.q0), s.q1), s.p1), s.p0),
              FSub(FInt(1), FDiv(s.q0, s.q1)))
    ELSE FDiv(FAdd(FMul(FDiv(FNeg(s.q1), s.q0), s.p0), s.p1),
              FSub(FInt(1), FDiv(s.q1, s.q0)))

\* How the call ends when the loop has run MaxIter times (disp = True).
Exhausted(p) == [exc |-> "RuntimeError", val |-> FNaN]

\* One pass of the loop, from the variables s.  It yields
\* [ends, exc, val, priced, s]: whether the call ends here, how, and the
\* variables after the pass.
newton_pass_impl(o, l, s) ==
    IF FEq(s.q1, s.q0)
    THEN [ends |-> TRUE, priced |-> 0, s |-> [s EXCEPT !.itr = @ + 1],
          exc |-> IF ~FEq(s.p1, s.p0) THEN "RuntimeError" ELSE "none",
          val |-> IF ~FEq(s.p1, s.p0) THEN FNaN
                  ELSE FDiv(FAdd(s.p1, s.p0), FInt(2))]
    ELSE
    LET p == secant(s)
    IN  IF IsClose(p, s.p1)
        THEN [ends |-> TRUE, priced |-> 0, s |-> [s EXCEPT !.itr = @ + 1],
              exc |-> "none", val |-> p]
        ELSE
        LET q  == func(o, l, p)
            s1 == [p0 |-> s.p1, q0 |-> s.q1, p1 |-> p, q1 |-> q.val,
                   itr |-> s.itr + 1, funcalls |-> s.funcalls + 1]
        IN  IF s1.itr < MaxIter
            THEN [ends |-> FALSE, priced |-> q.priced, s |-> s1,
                  exc |-> "none", val |-> FNaN]
            ELSE [ends |-> TRUE, priced |-> q.priced, s |-> s1,
                  exc |-> Exhausted(p).exc, val |-> Exhausted(p).val]

\* ------------------------------------------------------------------------
\* calculate_realized_yield, up to the call of newton: the names it binds.
\* ------------------------------------------------------------------------
RealizedFrequencies == {"annual", "semi-annual"}

realized_yield_setup_impl(a) ==
    IF a.frequency \notin RealizedFrequencies
    THEN [exc |-> "ValueError", priced |-> 0, locals |-> a]
    ELSE
    LET initial_bond_price == bond_value(a.face_value, a.coupon_rate,
                                  a.years_to_maturity, a.current_ytm,
                                  a.frequency, FALSE)
    IN  IF initial_bond_price.exc # "none"
        THEN [exc |-> initial_bond_price.exc, priced |-> 1, locals |-> a]
        ELSE
        LET remaining_years_to_maturity == a.years_to_maturity - a.holding_period
            future_bond_price_at_sale == bond_value(a.face_value, a.coupon_rate,
                                  remaining_years_to_maturity, a.future_ytm,
                                  a.frequency, FALSE)
            ppy == periods_per_year(a.frequency)
        IN  IF future_bond_price_at_sale.exc # "none"
            THEN [exc |-> future_bond_price_at_sale.exc, priced |-> 2, locals |-> a]
            ELSE [exc |-> "none", priced |-> 2,
                  locals |->
                    [face_value |-> a.face_value, coupon_rate |-> a.coupon_rate,
                     current_ytm |-> a.current_ytm,
                     years_to_maturity |-> a.years_to_maturity,
                     holding_period |-> a.holding_period,
                     future_ytm |-> a.future_ytm, frequency |-> a.frequency,
                     initial_bond_price |-> initial_bond_price.val,
                     remaining_years_to_maturity |-> remaining_years_to_maturity,
                     future_bond_price_at_sale |-> future_bond_price_at_sale.val,
                     periods_per_year |-> ppy,
                     holding_periods |-> a.holding_period * ppy,
                     counpon_payment |->
                         FDiv(FMul(a.coupon_rate, a.face_value), FInt(ppy))]]

\* ------------------------------------------------------------------------
\* Names and frames.  A float is immutable: an augmented assignment
\* (x /= n, x *= n, x += n) to a parameter binds the name anew in the frame
\* of the function and leaves the caller's value alone.
\* ------------------------------------------------------------------------
\* A binding that writes through to the caller's name as well.
StoreThrough(f, name, v) ==
    IF name \in DOMAIN f.caller
    THEN [f EXCEPT !.callee[name] = v, !.caller[name] = v]
    ELSE [f EXCEPT !.callee[name] = v]

Store(f, name, v) == [f EXCEPT !.callee[name] = v]

\* ------------------------------------------------------------------------
\* pv_stock_constant_growth, on the frames of the call
\* ------------------------------------------------------------------------
StockFrequencies == {"annual", "semi-annual", "quarter"}

stock_periods_per_year(payment_frequency) ==
    IF payment_frequency = "annual" THEN 1
    ELSE IF payment_frequency = "semi-annual" THEN 2
    ELSE 4

pv_stock_constant_growth_impl(f) ==
    IF f.callee.payment_frequency \notin StockFrequencies
    THEN [frames |-> f, ret |-> Raise("ValueError")]
    ELSE
    LET ppy == FInt(stock_periods_per_year(f.callee.payment_frequency))
        f1  == Store(f, "growth_rate", FDiv(f.callee.growth_rate, ppy))
        f2  == Store(f1, "discount_rate", FDiv(f1.callee.discount_rate, ppy))
        l   == f2.callee
        den == FSub(l.discount_rate, l.growth_rate)
    IN  [frames |-> f2,
         ret |-> IF l.pay_now
                 THEN truediv(FALSE, FMul(l.dividend, FAdd(FInt(1), l.growth_rate)), den)
                 ELSE truediv(FALSE, l.dividend, den)]

\* ------------------------------------------------------------------------
\* pv_stock_varying_growth_rate: one pass of the loop body, for the entry g
\* at position t (counted from 1).  It yields the frames after the pass
\* and the amount the pass has added to pv.
\* ------------------------------------------------------------------------
perpetuity_term_impl(last_dividend, discount_rate, g, t) ==
    LET q == truediv(FALSE, last_dividend, FSub(discount_rate, g))
    IN  IF q.exc # "none" THEN q
        ELSE LET p == pow(FALSE, FAdd(FInt(1), discount_rate), t - 1)
             IN  IF p.exc # "none" THEN p ELSE truediv(FALSE, q.val, p.val)

\* pv = term: the amount replaces what was accumulated.
Overwrite(pv, term) == term

\* pv += term
Accumulate(pv, term) == FAdd(pv, term)

varying_growth_pass_impl(f, g, t) ==
    LET f1   == Store(Store(f, "t", t), "last_dividend",
                      FMul(f.callee.last_dividend, FAdd(FInt(1), g)))
        l    == f1.callee
        term == IF t < l.year_start_infinite_growth
                THEN discounted(FALSE, l.last_dividend,
                                FAdd(FInt(1), l.discount_rate), t)
                ELSE perpetuity_term(l.last_dividend, l.discount_rate, g, t)
    IN  IF term.exc # "none" THEN [frames |-> f1, ret |-> term]
        ELSE [frames |-> Store(f1, "pv", Accumulate(l.pv, term.val)),
              ret |-> term]

\* ------------------------------------------------------------------------
\* optimal_weight_allocation
\* ------------------------------------------------------------------------
\* A second weight that is kept from going short.
floored_weight(w1) ==
    IF FGt(w1, FInt(1)) THEN FZero ELSE FSub(FInt(1), w1)

second_weight(w1) == FSub(FInt(1), w1)

optimal_weight_allocation_impl(r1, r2, sigma1, sigma2, rho, rf) ==
    LET rp1     == FSub(r1, rf)
        rp2     == FSub(r2, rf)
        sigma12 == FMul(FMul(sigma1, sigma2), rho)
        num     == FSub(FMul(FPow(sigma2, 2), rp1), FMul(sigma12, rp2))
        den     == FSub(FAdd(FMul(FPow(sigma1, 2), rp2), FMul(FPow(sigma2, 2), rp1)),
                        FMul(sigma12, FAdd(rp1, rp2)))
        w1      == truediv(FALSE, num, den)
    IN  IF w1.exc # "none" THEN [exc |-> w1.exc, w1 |-> FNaN, w2 |-> FNaN]
        ELSE [exc |-> "none", w1 |-> w1.val, w2 |-> second_weight(w1.val)]

\* ------------------------------------------------------------------------
\* The cells after optimal_weight_allocation, on the global names g they
\* read: the return of the optimal portfolio, and its blend with the
\* risk-free asset for the return needed.  stdp and sharpe_ratio, bound
\* after rp, are read by nothing below and are left out.
\* ------------------------------------------------------------------------
\* rp = w1 * r1 + w2 * r2
portfolio_return(w1, r1, w2, r2) == FAdd(FMul(w1, r1), FMul(w2, r2))

\* A risk-free weight that measures the return needed from rf, not from rp.
misplaced_risk_free_weight(return_needed, rf, rp) ==
    truediv(FALSE, FSub(return_needed, rf), FSub(rf, rp))

\* w_rf = (return_needed - rp)/(rf - rp)
risk_free_weight(return_needed, rf, rp) ==
    truediv(FALSE, FSub(return_needed, rp), FSub(rf, rp))

\* w_rp = 1 - w_rf
portfolio_weight(w_rf) == FSub(FInt(1), w_rf)

\* The names bound when the cells have run, or when w_rf has raised.
blend_names(g, rp, w_rf, w_rp) ==
    IF w_rf.exc # "none"
    THEN [exc |-> w_rf.exc, val |-> None, names |-> [rp |-> rp]]
    ELSE [exc |-> "none",
          val |-> <<w_rf.val, FMul(g.w1, w_rp), FMul(g.w2, w_rp)>>,
          names |-> [rp |-> rp, w_rf |-> w_rf.val, w_rp |-> w_rp,
                     w1_final |-> FMul(g.w1, w_rp),
                     w2_final |-> FMul(g.w2, w_rp)]]

blend_weights(g, rp, w_rf) ==
    blend_names(g, rp, w_rf,
                IF w_rf.exc # "none" THEN None ELSE portfolio_weight(w_rf.val))

blend(g, rp) == blend_weights(g, rp, risk_free_weight(g.return_needed, g.rf, rp))

capital_allocation_impl(g) ==
    blend(g, portfolio_return(g.w1, g.r1, g.w2, g.r2))

\* ------------------------------------------------------------------------
\* The definitions Compute selects from.
\* ------------------------------------------------------------------------
Compute(f, x) ==
    CASE f = "FRound" -> FRound_impl(x[1], x[2], x[3], x[4])
      [] f = "FRoundRatio" -> FRoundRatio_impl(x[1], x[2], x[3], x[4])
      [] f = "FInt" -> FInt_impl(x[1])
      [] f = "Dec" -> Dec_impl(x[1], x[2])
      [] f = "FCmp" -> FCmp_impl(x[1], x[2])
      [] f = "FAdd" -> FAdd_impl(x[1], x[2])
      [] f = "FMul" -> FMul_impl(x[1], x[2])
      [] f = "FDiv" -> FDiv_impl(x[1], x[2])
      [] f = "FPow" -> FPow_impl(x[1], x[2])
      [] f = "truediv" -> truediv_impl(x[1], x[2], x[3])
      [] f = "pow" -> pow_impl(x[1], x[2], x[3])
      [] f = "discounted" -> discounted_impl(x[1], x[2], x[3], x[4])
      [] f = "bond_price" -> bond_price_impl(x[1], x[2], x[3], x[4], x[5], x[6])
      [] f = "func" -> func_impl(x[1], x[2], x[3])
      [] f = "secant" -> secant_impl(x[1])
      [] f = "IsClose" -> IsClose_impl(x[1], x[2])
      [] f = "perpetuity_term" -> perpetuity_term_impl(x[1], x[2], x[3], x[4])
      [] f = "bond_value" -> bond_value_impl(x[1], x[2], x[3], x[4], x[5], x[6])
      [] f = "newton_start" -> newton_start_impl(x[1], x[2], x[3])
      [] f = "newton_pass" -> newton_pass_impl(x[1], x[2], x[3])
      [] f = "realized_yield_setup" -> realized_yield_setup_impl(x[1])
      [] f = "pv_stock_constant_growth" -> pv_stock_constant_growth_impl(x[1])
      [] f = "varying_growth_pass" -> varying_growth_pass_impl(x[1], x[2], x[3])
      [] f = "optimal_weight_allocation" -> optimal_weight_allocation_impl(x[1], x[2], x[3], x[4], x[5], x[6])
      [] f = "capital_allocation" -> capital_allocation_impl(x[1])

\* ------------------------------------------------------------------------
\* The program: a caller that calls the functions of the notebook, one call
\* at a time, with arguments drawn from small sets.
\* ------------------------------------------------------------------------
VARIABLES
    pc,        \* "idle": no call made; "newton": inside the root finder's
               \* loop; "loop": inside the loop over growth_rates; "done":
               \* the call has returned or raised
    call,      \* [op, args]: the call as the caller issued it
    frames,    \* [caller, callee]: the caller's argument values and the
               \* names bound in the function's own frame
    heap,      \* the list objects, by reference
    solver,    \* the root finder's variables
    outcome,   \* "none" | "value" | the name of the exception raised
    result,    \* the value returned
    pricings,  \* how often this call has run the bond pricing formula
    added,     \* the amounts the loop over growth_rates has added to pv
    prev       \* the call completed just before this one, when this one
               \* follows up on it

vars == <<pc, call, frames, heap, solver, outcome, result, pricings, added, prev>>

NoCall == [op |-> "none"]
NoFrame == [op |-> "none"]
NoSolver == [p0 |-> None, q0 |-> None, p1 |-> None, q1 |-> None,
             itr |-> 0, funcalls |-> 0]
NoPrev == [call |-> NoCall, outcome |-> "none", result |-> None]

Frequencies == {"annual", "semi-annual", "quarter", "monthly"}

MaxYears == 3
MaxHolding == 4
MaxGrowthLen == 4
MaxStart == 3

FaceValues == {Dec(1000, 0)}
CouponRates == {Dec(5, 2), Dec(12, 2)}
Yields == {Dec(-3, 0), Dec(-2, 0), Dec(-1, 0), Dec(-7, 1), Dec(-5, 1),
           Dec(5, 2), Dec(8, 2)}
DefaultGuess == Dec(5, 2)
Guesses == {DefaultGuess, Dec(-1, 0)}
MarketPrices == {Dec(950, 0)}
HoldingCoupons == {Dec(5, 2)}
PurchaseYields == {Dec(8, 2), Dec(-1, 0)}
SaleYields == {Dec(8, 2), Dec(7, 2), Dec(-1, 0)}
Dividends == {Dec(1, 0), Dec(22, 2)}
AnnualGrowthRates == {Dec(4, 3), Dec(16, 2)}
AnnualDiscountRates == {Dec(16, 2), Dec(8, 2)}
GrowthRates == {Dec(2, 1), Dec(15, 2), Dec(5, 2)}
DiscountRates == {Dec(2, 1)}
Returns1 == {Dec(4, 2), Dec(43381, 6)}
Returns2 == {Dec(8, 2), Dec(96887, 6)}
Sigmas1 == {Dec(1, 1), Dec(2, 1), Dec(36666, 6)}
Sigmas2 == {Dec(1, 1), Dec(151002, 6)}
Correlations == {Dec(0, 0), Dec(5, 1), Dec(1, 0), Dec(4155, 5)}
RiskFreeRates == {Dec(2, 2), Dec(4, 2), Dec(5, 2)}
ReturnsNeeded == {Dec(4, 2), Dec(2, 2), Dec(1, 1)}

RECURSIVE ListsUpTo(_)
ListsUpTo(n) ==
    IF n = 0 THEN {<< >>}
    ELSE LET shorter == ListsUpTo(n - 1)
         IN  shorter \cup {Append(l, g) : l \in {x \in shorter : Len(x) = n - 1},
                                          g \in GrowthRates}

BondValueArgs ==
    [face_value : FaceValues, coupon_rate : CouponRates,
     years_to_maturity : 0..MaxYears, ytm : Yields, frequency : Frequencies]

CalculateYtmArgs ==
    [bond_price : MarketPrices, face_value : FaceValues,
     coupon_rate : CouponRates, years_to_maturity : 0..MaxYears,
     frequency : Frequencies, guess : Guesses]

RealizedYieldArgs ==
    [face_value : FaceValues, coupon_rate : HoldingCoupons,
     current_ytm : PurchaseYields, years_to_maturity : 0..MaxYears,
     holding_period : 0..MaxHolding, future_ytm : SaleYields,
     frequency : Frequencies]

ConstantGrowthArgs ==
    [dividend : Dividends, growth_rate : AnnualGrowthRates,
     discount_rate : AnnualDiscountRates, pay_now : BOOLEAN,
     payment_frequency : Frequencies]

VaryingGrowthArgs ==
    [last_dividend : {Dec(1, 0)}, discount_rate : DiscountRates,
     growth_rates : ListsUpTo(MaxGrowthLen),
     year_start_infinite_growth : 1..MaxStart]

WeightArgs ==
    [r1 : Returns1, r2 : Returns2, sigma1 : Sigmas1, sigma2 : Sigmas2,
     rho : Correlations, rf : RiskFreeRates]

Init ==
    /\ pc = "idle"
    /\ call = NoCall
    /\ frames = [caller |-> NoFrame, callee |-> NoFrame]
    /\ heap = << >>
    /\ solver = NoSolver
    /\ outcome = "none"
    /\ result = None
    /\ pricings = 0
    /\ added = << >>
    /\ prev = NoPrev

\* The calls the caller may make.  Idle, it makes any call with arguments
\* from the sets above.  After a call that was not itself a follow-up, it
\* may follow up once: repeat the call with the values it still holds
\* (the calls that use the root finder are not repeated), reprice the same
\* bond at another yield, or ask for the yield of the price that bond_value
\* has just returned, from the default guess.
Repeated(o) ==
    IF call.op = o /\ o \notin {"calculate_ytm", "calculate_realized_yield"}
    THEN {[a \in DOMAIN frames.caller |->
              IF a = "growth_rates" THEN heap[frames.caller[a]]
              ELSE frames.caller[a]]}
    ELSE {}

Repriced ==
    IF call.op = "bond_value"
    THEN {[call.args EXCEPT !.ytm = y] : y \in Yields}
    ELSE {}

RoundTrip ==
    IF call.op = "bond_value" /\ outcome = "value"
    THEN {[bond_price |-> result,
           face_value |-> call.args.face_value,
           coupon_rate |-> call.args.coupon_rate,
           years_to_maturity |-> call.args.years_to_maturity,
           frequency |-> call.args.frequency,
           guess |-> DefaultGuess]}
    ELSE {}

Candidates(o, fresh, related) ==
    IF pc = "idle" THEN fresh
    ELSE IF pc = "done" /\ prev = NoPrev THEN Repeated(o) \cup related
    ELSE {}

Completed == [call |-> call, outcome |-> outcome, result |-> result]

Calls(o, a) ==
    /\ call' = [op |-> o, args |-> a]
    /\ prev' = IF pc = "done" THEN Completed ELSE NoPrev

\* The call returns r.val, or raises r.exc.
Ends(r) ==
    /\ pc' = "done"
    /\ outcome' = IF r.exc = "none" THEN "value" ELSE r.exc
    /\ result' = IF r.exc = "none" THEN r.val ELSE None

Continues(at) ==
    /\ pc' = at
    /\ outcome' = "none"
    /\ result' = None

Priced(r) == Ends(r) /\ pricings' = r.priced

CallBondValue(a) ==
    /\ Calls("bond_value", a)
    /\ frames' = [caller |-> a, callee |-> a]
    /\ Priced(bond_value(a.face_value, a.coupon_rate, a.years_to_maturity,
                         a.ytm, a.frequency, FALSE))
    /\ heap' = << >>
    /\ solver' = NoSolver
    /\ added' = << >>

\* The root finder has started, after n runs of the pricing formula: the
\* call ends at once when a residual raised.
Started(st, n) ==
    /\ solver' = [p0 |-> st.p0, q0 |-> st.q0, p1 |-> st.p1, q1 |-> st.q1,
                  itr |-> st.itr, funcalls |-> st.funcalls]
    /\ pricings' = n + st.priced
    /\ IF st.exc # "none" THEN Ends(st) ELSE Continues("newton")

CallCalculateYtm(a) ==
    /\ Calls("calculate_ytm", a)
    /\ frames' = [caller |-> a, callee |-> a]
    /\ Started(newton_start("calculate_ytm", a, a.guess), 0)
    /\ heap' = << >>
    /\ added' = << >>

\* The setup su has bound the function's names: unless it raised, the root
\* finder starts from current_ytm.
SetUp(a, su) ==
    /\ frames' = [caller |-> a, callee |-> su.locals]
    /\ IF su.exc # "none"
       THEN Ends(su) /\ pricings' = su.priced /\ solver' = NoSolver
       ELSE Started(newton_start("calculate_realized_yield", su.locals,
                                 a.current_ytm), su.priced)

CallCalculateRealizedYield(a) ==
    /\ Calls("calculate_realized_yield", a)
    /\ SetUp(a, realized_yield_setup(a))
    /\ heap' = << >>
    /\ added' = << >>

Passed(r) ==
    /\ solver' = r.s
    /\ pricings' = pricings + r.priced
    /\ IF r.ends THEN Ends(r) ELSE Continues("newton")

\* One pass of the root finder's loop.
NewtonPass ==
    /\ pc = "newton"
    /\ Passed(newton_pass(call.op, frames.callee, solver))
    /\ UNCHANGED <<call, frames, heap, added, prev>>

Valued(r) == frames' = r.frames /\ Ends(r.ret)

CallPvStockConstantGrowth(a) ==
    /\ Calls("pv_stock_constant_growth", a)
    /\ Valued(pv_stock_constant_growth([caller |-> a, callee |-> a]))
    /\ heap' = << >>
    /\ solver' = NoSolver
    /\ pricings' = 0
    /\ added' = << >>

\* The caller's list is one object; the function receives a reference.
CallPvStockVaryingGrowthRate(a) ==
    /\ Calls("pv_stock_varying_growth_rate", a)
    /\ heap' = <<a.growth_rates>>
    /\ LET held == [a EXCEPT !.growth_rates = 1]
       IN  frames' = [caller |-> held,
                      callee |-> [last_dividend |-> a.last_dividend,
                                  discount_rate |-> a.discount_rate,
                                  growth_rates |-> 1,
                                  year_start_infinite_growth |->
                                      a.year_start_infinite_growth,
                                  pv |-> FZero, t |-> 0]]
    /\ IF a.growth_rates = << >> THEN Ends(Ok(FZero)) ELSE Continues("loop")
    /\ solver' = NoSolver
    /\ pricings' = 0
    /\ added' = << >>

\* The pass r was the last of n when it raised or took the last entry.
Added(r, last) ==
    /\ frames' = r.frames
    /\ added' = IF r.ret.exc = "none" THEN Append(added, r.ret.val) ELSE added
    /\ IF r.ret.exc # "none" THEN Ends(r.ret)
       ELSE IF last THEN Ends(Ok(r.frames.callee.pv))
       ELSE Continues("loop")

Grown(rates, t) == Added(varying_growth_pass(frames, rates[t], t), t = Len(rates))

\* One pass of the loop over growth_rates; after the last, pv is returned.
GrowthPass ==
    /\ pc = "loop"
    /\ Grown(heap[frames.callee.growth_rates], frames.callee.t + 1)
    /\ UNCHANGED <<call, heap, solver, pricings, prev>>

Weighed(w) == Ends([exc |-> w.exc, val |-> <<w.w1, w.w2>>])

CallOptimalWeightAllocation(a) ==
    /\ Calls("optimal_weight_allocation", a)
    /\ frames' = [caller |-> a, callee |-> a]
    /\ Weighed(optimal_weight_allocation(a.r1, a.r2, a.sigma1, a.sigma2, a.rho, a.rf))
    /\ heap' = << >>
    /\ solver' = NoSolver
    /\ pricings' = 0
    /\ added' = << >>

\* The global names the cells read, after optimal_weight_allocation has
\* returned w1 and w2.
BlendGlobals(t) ==
    [return_needed |-> t, rf |-> call.args.rf,
     r1 |-> call.args.r1, r2 |-> call.args.r2,
     w1 |-> result[1], w2 |-> result[2]]

Blended(g, b) ==
    /\ Calls("capital_allocation", g)
    /\ frames' = [caller |-> g, callee |-> b.names]
    /\ Ends(b)

\* The cells that bind rp, w_rf, w_rp, w1_final and w2_final, run after the
\* cell that has called optimal_weight_allocation.
RunCapitalAllocation(t) ==
    /\ pc = "done"
    /\ prev = NoPrev
    /\ call.op = "optimal_weight_allocation"
    /\ outcome = "value"
    /\ Blended(BlendGlobals(t), capital_allocation(BlendGlobals(t)))
    /\ heap' = << >>
    /\ solver' = NoSolver
    /\ pricings' = 0
    /\ added' = << >>

\* The caller moves on and drops what it held.
Return ==
    /\ pc = "done"
    /\ pc' = "idle"
    /\ call' = NoCall
    /\ frames' = [caller |-> NoFrame, callee |-> NoFrame]
    /\ heap' = << >>
    /\ solver' = NoSolver
    /\ outcome' = "none"
    /\ result' = None
    /\ pricings' = 0
    /\ added' = << >>
    /\ prev' = NoPrev

Next ==
    \/ \E a \in Candidates("bond_value", BondValueArgs, Repriced) :
            CallBondValue(a)
    \/ \E a \in Candidates("calculate_ytm", CalculateYtmArgs, RoundTrip) :
            CallCalculateYtm(a)
    \/ \E a \in Candidates("calculate_realized_yield", RealizedYieldArgs, {}) :
            CallCalculateRealizedYield(a)
    \/ NewtonPass
    \/ \E a \in Candidates("pv_stock_constant_growth", ConstantGrowthArgs, {}) :
            CallPvStockConstantGrowth(a)
    \/ \E a \in Candidates("pv_stock_varying_growth_rate", VaryingGrowthArgs, {}) :
            CallPvStockVaryingGrowthRate(a)
    \/ GrowthPass
    \/ \E a \in Candidates("optimal_weight_allocation", WeightArgs, {}) :
            CallOptimalWeightAllocation(a)
    \/ \E t \in ReturnsNeeded : RunCapitalAllocation(t)
    \/ Return

Spec == Init /\ [][Next]_vars

\* ------------------------------------------------------------------------
\* Properties
\* ------------------------------------------------------------------------
SolverOps == {"calculate_ytm", "calculate_realized_yield"}
BondOps == {"bond_value"} \cup SolverOps

Ended(o) == pc = "done" /\ call.op = o

\* C1: a call of bond_value, calculate_ytm or calculate_realized_yield with a
\* frequency other than 'annual' and 'semi-annual', and a call of
\* pv_stock_constant_growth with a payment frequency other than 'annual',
\* 'semi-annual' and 'quarter', raises ValueError: it returns no number, the
\* pricing formula has not been run, the root finder has evaluated no
\* residual and made no pass of its loop, and the stock function has bound
\* none of its names anew.
C1_UnknownFrequencyRaises ==
    /\ (call.op \in BondOps /\ call.args.frequency \notin {"annual", "semi-annual"})
        => /\ pc = "done"
           /\ outcome = "ValueError"
           /\ result = None
           /\ pricings = 0
           /\ solver.funcalls = 0
           /\ solver.itr = 0
    /\ (call.op = "pv_stock_constant_growth"
            /\ call.args.payment_frequency \notin {"annual", "semi-annual", "quarter"})
        => /\ pc = "done"
           /\ outcome = "ValueError"
           /\ result = None
           /\ frames.callee = call.args

C1_QuarterlyBondYieldRaised ==
    /\ Ended("calculate_ytm")
    /\ call.args.frequency = "quarter"
    /\ outcome = "ValueError"

\* The residual changes sign, or is zero, within d of x.
RootWithin(o, l, x, d) ==
    LET lo == func(o, l, FSub(x, d)).val
        hi == func(o, l, FAdd(x, d)).val
    IN  \/ FLe(lo, FZero) /\ FGe(hi, FZero)
        \/ FGe(lo, FZero) /\ FLe(hi, FZero)

RootTol == Dec(1, 6)

\* C2: a call of calculate_ytm or calculate_realized_yield whose root finder
\* has started ends either with a number that is a root of the residual, to
\* within 1e-6, or with the RuntimeError of a failure to converge.
C2_RootOrFailure ==
    (pc = "done" /\ call.op \in SolverOps /\ solver.funcalls >= 2)
        => \/ outcome = "RuntimeError"
           \/ /\ outcome = "value"
              /\ RootWithin(call.op, frames.callee, result, RootTol)

\* The first coordinate of the pole of the price: 1 + ytm / periods_per_year > 0.
AbovePole(ytm, frequency) ==
    FGt(FAdd(FInt(1), FDiv(ytm, FInt(periods_per_year(frequency)))), FZero)

Repricing ==
    /\ Ended("bond_value")
    /\ prev.call.op = "bond_value"
    /\ call.args.frequency \in {"annual", "semi-annual"}
    /\ call.args.years_to_maturity >= 1
    /\ outcome = "value"
    /\ prev.outcome = "value"

\* C3 as stated: of two prices of one bond, at any two yields, the one at
\* the lower yield is not the smaller.
C3_MonotoneEverywhere ==
    Repricing =>
        /\ FLe(prev.call.args.ytm, call.args.ytm) => FGe(prev.result, result)
        /\ FLe(call.args.ytm, prev.call.args.ytm) => FGe(result, prev.result)

\* C3: of two prices of one bond (a positive number of years, a recognized
\* frequency) at two yields of which the lower has
\* 1 + ytm / periods_per_year > 0, the one at the lower yield is not the
\* smaller.
C3_MonotoneAbovePole ==
    Repricing =>
        /\ (FLe(prev.call.args.ytm, call.args.ytm)
                /\ AbovePole(prev.call.args.ytm, call.args.frequency))
            => FGe(prev.result, result)
        /\ (FLe(call.args.ytm, prev.call.args.ytm)
                /\ AbovePole(call.args.ytm, call.args.frequency))
            => FGe(result, prev.result)

C3_RepricedHigherAbovePole ==
    /\ Repricing
    /\ FLt(prev.call.args.ytm, call.args.ytm)
    /\ AbovePole(prev.call.args.ytm, call.args.frequency)
    /\ FLt(prev.call.args.ytm, FZero)
    /\ FGt(prev.result, result)

\* C4: the yield computed, from the default guess, for the price that
\* bond_value has returned for a bond of a positive number of years at the
\* yield ytm0 is a number within 1e-6 of ytm0.
C4_RoundTripRecovers ==
    (Ended("calculate_ytm") /\ prev.call.op = "bond_value"
            /\ call.args.years_to_maturity >= 1)
        => /\ outcome = "value"
           /\ FLe(FAbs(FSub(result, prev.call.args.ytm)), RootTol)

\* C5: bond_value of a bond with zero years to maturity, at a recognized
\* frequency, returns exactly face_value.
C5_MaturedBondIsFaceValue ==
    (Ended("bond_value") /\ call.args.years_to_maturity = 0
            /\ call.args.frequency \in {"annual", "semi-annual"})
        => outcome = "value" /\ result = call.args.face_value

C5_MaturedBondAtPole ==
    /\ Ended("bond_value")
    /\ call.args.years_to_maturity = 0
    /\ call.args.frequency = "annual"
    /\ call.args.ytm = Dec(-1, 0)
    /\ result = call.args.face_value

Weights == Ended("optimal_weight_allocation") /\ outcome = "value"

\* C6 as stated: the two weights returned add up to exactly 1.
C6_SumIsExactlyOne ==
    Weights => FAdd(result[1], result[2]) = FInt(1)

\* C6: the second weight returned is 1 - w1 as floating point rounds it,
\* whatever the sign and size of w1; the sum of the two weights is exactly 1
\* when 1/2 <= w1 <= 2, and is otherwise within 2^-51 * max(1, |w2|) of 1.
C6_SumIsOneUpToRounding ==
    Weights =>
        LET w1 == result[1]
            w2 == result[2]
            sum == FAdd(w1, w2)
        IN  /\ w2 = FSub(FInt(1), w1)
            /\ (FGe(w1, Dec(5, 1)) /\ FLe(w1, FInt(2))) => sum = FInt(1)
            /\ FLe(FAbs(FSub(sum, FInt(1))),
                   FMul([k |-> "fin", s |-> 0, m |-> BigOne, e |-> 0 - 51],
                        IF FGt(FAbs(w2), FInt(1)) THEN FAbs(w2) ELSE FInt(1)))

C6_LeveredSumOffOne ==
    /\ Weights
    /\ FGt(result[1], FInt(1))
    /\ FLt(result[2], FZero)
    /\ FAdd(result[1], result[2]) # FInt(1)

\* The values the caller holds, lists read through their references.
Held ==
    [a \in DOMAIN frames.caller |->
        IF a = "growth_rates" THEN heap[frames.caller[a]] ELSE frames.caller[a]]

StockOps == {"pv_stock_constant_growth", "pv_stock_varying_growth_rate"}

\* C7: during and after every call the caller holds the values it passed,
\* the list of growth rates included; a stock valuation called again with
\* the values the caller holds is the same call and ends the same way.
C7_ArgumentsUnchanged ==
    /\ pc # "idle" => Held = call.args
    /\ (pc # "idle" /\ call.op \in StockOps /\ prev # NoPrev)
        => /\ call = prev.call
           /\ pc = "done" => outcome = prev.outcome /\ result = prev.result

C7_ReboundNamesRepeated ==
    /\ Ended("pv_stock_constant_growth")
    /\ prev.call = call
    /\ outcome = "value"
    /\ result = prev.result
    /\ frames.callee.growth_rate # call.args.growth_rate
    /\ frames.caller.growth_rate = call.args.growth_rate

RECURSIVE SumOf(_, _)
SumOf(terms, n) ==
    IF n = 0 THEN FZero ELSE FAdd(SumOf(terms, n - 1), terms[n])

Grew ==
    /\ Ended("pv_stock_varying_growth_rate")
    /\ outcome = "value"
    /\ Len(call.args.growth_rates) > call.args.year_start_infinite_growth

\* C8 as stated: with more growth rates than year_start_infinite_growth,
\* the value returned is the discounted dividends of the years before
\* year_start_infinite_growth plus the perpetuity value of the last entry
\* alone.
C8_LastPerpetuityOnly ==
    Grew => result = FAdd(SumOf(added, call.args.year_start_infinite_growth - 1),
                          added[Len(added)])

\* C8: with more growth rates than year_start_infinite_growth, every entry
\* has added its amount to pv, and the value returned is the sum of all of
\* them in order: the discounted dividends of the years before
\* year_start_infinite_growth and the perpetuity value of every later entry.
C8_EveryPerpetuityAdded ==
    Grew => /\ Len(added) = Len(call.args.growth_rates)
            /\ result = SumOf(added, Len(added))

C8_TwoPerpetuitiesAdded ==
    /\ Grew
    /\ Len(added) >= call.args.year_start_infinite_growth + 1
    /\ result = SumOf(added, Len(added))
    /\ result # FAdd(SumOf(added, call.args.year_start_infinite_growth - 1),
                     added[Len(added)])

\* C9: a call of calculate_realized_yield with holding_period greater than
\* years_to_maturity, at a recognized frequency, does not return a number.
C9_NegativeRemainingRaises ==
    (Ended("calculate_realized_yield")
            /\ call.args.frequency \in {"annual", "semi-annual"}
            /\ call.args.holding_period > call.args.years_to_maturity)
        => outcome # "value"

HeldAtPurchaseYield ==
    /\ Ended("calculate_realized_yield")
    /\ call.args.frequency \in {"annual", "semi-annual"}
    /\ call.args.future_ytm = call.args.current_ytm
    /\ call.args.holding_period <= call.args.years_to_maturity

\* C10 as stated: with future_ytm = current_ytm and
\* 0 <= holding_period <= years_to_maturity the call returns current_ytm.
C10_YieldEqualsPurchaseYield ==
    HeldAtPurchaseYield => outcome = "value" /\ result = call.args.current_ytm

\* C10: with future_ytm = current_ytm, 1 + current_ytm / periods_per_year > 0
\* and holding_period <= years_to_maturity, the call returns a number within
\* the root finder's tolerance of current_ytm when holding_period >= 1, and
\* raises the root finder's RuntimeError when holding_period = 0.
C10_YieldNearPurchaseYield ==
    (HeldAtPurchaseYield /\ AbovePole(call.args.current_ytm, call.args.frequency))
        => IF call.args.holding_period = 0
           THEN outcome = "RuntimeError"
           ELSE /\ outcome = "value"
                /\ FLe(FAbs(FSub(result, call.args.current_ytm)), Tol)

C10_YieldNearNotEqual ==
    /\ HeldAtPurchaseYield
    /\ call.args.holding_period >= 1
    /\ outcome = "value"
    /\ result # call.args.current_ytm
    /\ FLe(FAbs(FSub(result, call.args.current_ytm)), Tol)

\* The cells have run and bound the blend for rf # rp.
Allocated ==
    /\ Ended("capital_allocation")
    /\ outcome = "value"
    /\ ~FEq(call.args.rf, frames.callee.rp)

\* w_rf * rf + w_rp * rp, as floating point computes it.
BlendReturn ==
    FAdd(FMul(frames.callee.w_rf, call.args.rf),
         FMul(frames.callee.w_rp, frames.callee.rp))

\* C11 as stated: the blend of rf and rp by the computed weights is the
\* return needed.
C11_BlendIsReturnNeeded ==
    Allocated => BlendReturn = call.args.return_needed

\* C11: for rf # rp the cells bind rp = w1 * r1 + w2 * r2,
\* w_rf = (return_needed - rp) / (rf - rp), w_rp = 1 - w_rf and the final
\* weights w1 * w_rp and w2 * w_rp, and the blend w_rf * rf + w_rp * rp is
\* the return needed up to rounding: within
\* 2^-51 * (|return_needed| + |rp| + |w_rf * rf| + |w_rp * rp|) of it.
C11_BlendNearReturnNeeded ==
    Allocated =>
        LET g == call.args
            l == frames.callee
        IN  /\ l.rp = FAdd(FMul(g.w1, g.r1), FMul(g.w2, g.r2))
            /\ l.w_rf = FDiv(FSub(g.return_needed, l.rp), FSub(g.rf, l.rp))
            /\ l.w_rp = FSub(FInt(1), l.w_rf)
            /\ l.w1_final = FMul(g.w1, l.w_rp)
            /\ l.w2_final = FMul(g.w2, l.w_rp)
            /\ FLe(FAbs(FSub(BlendReturn, g.return_needed)),
                   FMul([k |-> "fin", s |-> 0, m |-> BigOne, e |-> 0 - 51],
                        FAdd(FAdd(FAbs(g.return_needed), FAbs(l.rp)),
                             FAdd(FAbs(FMul(l.w_rf, g.rf)),
                                  FAbs(FMul(l.w_rp, l.rp))))))

C11_BlendOffByRounding ==
    /\ Allocated
    /\ call.args.return_needed = Dec(4, 2)
    /\ FGt(frames.callee.w_rf, FZero)
    /\ FGt(frames.callee.w_rp, FZero)
    /\ BlendReturn # call.args.return_needed
====
